---- MODULE Spec2Model ----
(***************************************************************************)
(* Outreach pipelines of the LinkedIn lead-generation agent.               *)
(*                                                                         *)
(* Pipeline 1 (pipe_1_final_jan17.py): scrape_and_connect and the connect  *)
(* executor send_connection_request, over successive runs that share the   *)
(* persisted ledger output/previous_connection_attempts.csv.               *)
(* Pipeline 2 (pipe_2_final_jan17.py): the message-send retry loop of main.*)
(* Pipeline 3 (pipe_3_final_jan20.py): the pass of main over the inbox.    *)
(***************************************************************************)
EXTENDS Integers, Sequences, FiniteSets, TLC

\* ------------------------------------------------------------------------
\* Bounds of the model
\* ------------------------------------------------------------------------
MaxRuns == 2          \* campaign runs started one after the other
MaxBatch == 3         \* rows in one batch returned by scrape_staff
MaxCompanies == 2     \* selected companies in the configurations explored
MaxCap == 1           \* per-company attempt cap in the configurations explored
MaxConnections == 2   \* connections returned by scrape_connections
MaxRetryCount == 3    \* value at which the model stops counting retry_count
MaxConversations == 2 \* conversations returned by get_conversations
MaxMessages == 2      \* message events of one conversation
MaxParticipants == 1  \* participants of one conversation

\* ------------------------------------------------------------------------
\* Program constants
\* ------------------------------------------------------------------------
max_retries == 3      \* send_connection_request(max_retries=3)
retry_delay == 5      \* send_connection_request(retry_delay=5)
CodeTarget == 15      \* target_connections = 15
base_delay == 30      \* pipeline 2, send retry: base_delay = 30
max_delay == 150      \* pipeline 2, send retry: max_delay = 150
pause_base_delay == 45   \* pipeline 2, between connections: base_delay = 45
pause_max_delay == 120   \* pipeline 2, between connections: max_delay = 120

\* ------------------------------------------------------------------------
\* Values
\* ------------------------------------------------------------------------
\* Profile identifiers the discovery collaborator may return.  "null" is a
\* legal public identifier that pandas.read_csv reads back as a missing value.
Ids == {"alice", "null"}

\* float('nan') as it comes out of pandas for a missing cell.
NaN == "<nan>"

\* Rows of staff_df: the 'profile_id' field (None modelled as "") and the last
\* path segment of 'profile_link' ("" when the link is absent).
Rows ==
  { [profile_id |-> "alice", link_tail |-> ""],
    [profile_id |-> "null",  link_tail |-> ""],
    [profile_id |-> "",      link_tail |-> "alice"],
    [profile_id |-> "",      link_tail |-> ""] }

\* Messages of the exceptions the API collaborator may raise.
Errs == {"timeout", "reset"}

MsgSent == "Connection request sent successfully"
MsgNotFound == "Profile not found or not accessible"
MsgFailed == "Failed to send connection request"

CouldNotFetch(e) == "Could not fetch profile data: " \o e

\* ------------------------------------------------------------------------
\* State
\* ------------------------------------------------------------------------
VARIABLES
  ledger_file,              \* 'profile_id' column of the persisted ledger, as text
  errs,                     \* exception messages the API collaborator raises
  runs,                     \* campaign runs started so far
  pc,                       \* position of the campaign run
  num_companies,            \* len(selected_companies)
  target_connections,
  max_attempts_per_company,
  previous_profile_ids,     \* the Dedup Ledger as loaded by this run
  company_idx,              \* index of the company of the outer loop
  profiles_to_try,          \* rows of the shuffled batch not yet iterated
  attempts_for_company,
  successful_connections,
  connection_attempts,      \* AttemptRecords of this run
  profile_id,               \* target handed to send_connection_request
  attempt,                  \* loop variable of send_connection_request
  exec_pc,                  \* position inside send_connection_request
  exec_log,                 \* events of the current / last executor call
  api_calls,                \* ids given to get_profile/add_connection this run
  submitted_for_company,    \* executor calls made in this company's sub-loop
  calls_started,            \* executor calls started in this run
  scrapes_after_target,     \* scrape_staff issued with the target reached
  killed_ids,               \* ids attempted in runs that were killed
  target_delays,            \* inter-target delays slept in this run
  batch_delayed,            \* inter-batch delay slept since the last scrape
  scrape_raised_at,         \* company whose scrape_staff call raised last
  boot_failed,              \* the last main() ended on a failed initialisation
  m_pc,                     \* pipeline 2: position of main
  connections,              \* pipeline 2: result of scrape_connections
  m_idx,                    \* pipeline 2: loop position in connections
  retry_count,              \* pipeline 2: retry_count of the send loop
  m_delay,                  \* pipeline 2: argument of the last time.sleep
  m_sends,                  \* pipeline 2: send_message calls per connection
  m_llm_failed,             \* pipeline 2: connections left without a message
  m_send_log,               \* pipeline 2: send_message results, as classified
  t_pc,                     \* pipeline 3: position of main
  inbox,                    \* pipeline 3: conversations.get('elements', [])
  t_idx,                    \* pipeline 3: loop position in the conversations
  t_msg,                    \* pipeline 3: loop position in messages
  t_part,                   \* pipeline 3: loop position in participants
  contact_found,            \* pipeline 3: contact_found of this conversation
  conversation_data,        \* pipeline 3: conv_info appended so far
  contact_details_data,     \* pipeline 3: contact_data appended so far
  participant_data,         \* pipeline 3: participant_info appended so far
  participant_files,        \* pipeline 3: participant_details_<urn>.json saved
  t_send_log,               \* pipeline 3: send_response_message calls made
  t_pass,                   \* pipeline 3: which execution of the program this is
  t_prev_inbox,             \* pipeline 3: what the execution before this one fetched
  t_prev_send_log,          \* pipeline 3: the calls the execution before made
  fn_pc,                    \* a function on its own: before or after the call
  fn_input,                 \* a function on its own: its arguments
  fn_result                 \* a function on its own: what it returned

vars == << ledger_file, errs, runs, pc, num_companies, target_connections,
           max_attempts_per_company, previous_profile_ids, company_idx,
           profiles_to_try, attempts_for_company, successful_connections,
           connection_attempts, profile_id, attempt, exec_pc, exec_log,
           api_calls, submitted_for_company, calls_started,
           scrapes_after_target, killed_ids, target_delays, batch_delayed,
           scrape_raised_at, boot_failed,
           m_pc, connections, m_idx, retry_count, m_delay, m_sends,
           m_llm_failed, m_send_log,
           t_pc, inbox, t_idx, t_msg, t_part, contact_found,
           conversation_data, contact_details_data, participant_data,
           participant_files, t_send_log,
           t_pass, t_prev_inbox, t_prev_send_log,
           fn_pc, fn_input, fn_result >>

PassVars == << t_pass, t_prev_inbox, t_prev_send_log >>

FnVars == << fn_pc, fn_input, fn_result >>

TriageVars ==
  << t_pc, inbox, t_idx, t_msg, t_part, contact_found, conversation_data,
     contact_details_data, participant_data, participant_files, t_send_log,
     t_pass, t_prev_inbox, t_prev_send_log >>

MsgVars ==
  << m_pc, connections, m_idx, retry_count, m_delay, m_sends, m_llm_failed,
     m_send_log >>

\* ------------------------------------------------------------------------
\* The persisted ledger: pandas CSV round trip of the 'profile_id' column
\* ------------------------------------------------------------------------
\* Cells that pandas.read_csv turns into a missing value (its default
\* na_values, restricted to the cells that can occur here).
NAStrings == {"", "null"}

\* pd.read_csv(previous_attempts_file)['profile_id']: one parsed value per row.
ParseCell(c) == IF c \in NAStrings THEN NaN ELSE c

read_csv(file) == [i \in 1..Len(file) |-> ParseCell(file[i])]

\* DataFrame.to_csv: a missing value is written as an empty cell.
FormatCell(v) == IF v = NaN THEN "" ELSE v

to_csv(column) == [i \in 1..Len(column) |-> FormatCell(column[i])]

\* os.path.exists(previous_attempts_file): the file is only ever written with
\* at least one record in it.
FileExists == ledger_file # <<>>

\* set(previous_attempts['profile_id'].tolist())
LoadedProfileIds(file) == { read_csv(file)[i] : i \in 1..Len(file) }

\* ------------------------------------------------------------------------
\* Helpers of scrape_and_connect
\* ------------------------------------------------------------------------
\* profile_to_connect.get('profile_id') or
\*   profile_to_connect.get('profile_link', '').split('/')[-1]
ResolveProfileId(row) ==
  IF row.profile_id # "" THEN row.profile_id ELSE row.link_tail

\* not profile_id or profile_id == 'Unknown'
HasNoId(id) == id = "" \/ id = "Unknown"

\* Variant: the target test lets one more success through.
TargetMetStrict(s, t) == s > t

\* successful_connections >= target_connections
TargetMet(s, t) == s >= t

\* Variant: the cap test lets one more attempt through.
CapReachedStrict(a, cap) == a > cap

\* attempts_for_company >= max_attempts_per_company
CapReached(a, cap) == a >= cap

\* profile_id in previous_profile_ids
AlreadyAttempted(id, ledger) == id \in ledger

\* Variant: the last attempt is taken to be the one before it.
IsLastAttemptEarly(a) == a = max_retries - 2

\* attempt == max_retries - 1
IsLastAttempt(a) == a = max_retries - 1

\* Non-empty batches scrape_staff may return, in the order left by
\* staff_df.sample(frac=1).
Batches == UNION { [1..n -> Rows] : n \in 1..MaxBatch }

InRun == {"company", "profile", "exec", "save"}

Event(a, ev, err) == [attempt |-> a, ev |-> ev, err |-> err]

AttemptRecord(id, success, message) ==
  [profile_id |-> id, success |-> success, message |-> message]

\* What a send_message call gave ("falsy" or "truthy" return value, or
\* "raised") and how the caller took it.
SendResult(response, classified) ==
  [response |-> response, classified |-> classified]

\* ------------------------------------------------------------------------
\* Init
\* ------------------------------------------------------------------------
FreshLocals ==
  /\ previous_profile_ids = {}
  /\ company_idx = 1
  /\ profiles_to_try = <<>>
  /\ attempts_for_company = 0
  /\ successful_connections = 0
  /\ connection_attempts = <<>>
  /\ profile_id = ""
  /\ attempt = 0
  /\ exec_pc = "none"
  /\ exec_log = <<>>
  /\ api_calls = {}
  /\ submitted_for_company = 0
  /\ calls_started = 0
  /\ scrapes_after_target = 0
  /\ target_delays = 0
  /\ batch_delayed = FALSE
  /\ scrape_raised_at = 0

\* Pipeline 2 is a separate program: not running.
MsgIdle ==
  /\ m_pc = "off"
  /\ connections = <<>>
  /\ m_idx = 1
  /\ retry_count = 0
  /\ m_delay = 0
  /\ m_sends = {}
  /\ m_llm_failed = {}
  /\ m_send_log = {}

\* No function is looked at on its own.
FnIdle ==
  /\ fn_pc = "off"
  /\ fn_input = <<>>
  /\ fn_result = <<>>

\* The first execution of pipeline 3: none went before it.
FirstPass ==
  /\ t_pass = 1
  /\ t_prev_inbox = <<>>
  /\ t_prev_send_log = <<>>

\* Pipeline 3 is a separate program: not running.
TriageIdle ==
  /\ FirstPass
  /\ t_pc = "off"
  /\ inbox = <<>>
  /\ t_idx = 1
  /\ t_msg = 1
  /\ t_part = 1
  /\ contact_found = FALSE
  /\ conversation_data = <<>>
  /\ contact_details_data = <<>>
  /\ participant_data = <<>>
  /\ participant_files = {}
  /\ t_send_log = <<>>

Init ==
  /\ MsgIdle
  /\ TriageIdle
  /\ FnIdle
  /\ ledger_file = <<>>
  /\ errs = {"timeout"}
  /\ runs = 0
  /\ pc = "idle"
  /\ num_companies \in 1..MaxCompanies
  /\ max_attempts_per_company \in 1..MaxCap
  /\ target_connections \in {1, CodeTarget}
  /\ killed_ids = {}
  /\ boot_failed = FALSE
  /\ FreshLocals

Config ==
  << num_companies, target_connections, max_attempts_per_company, errs >>

ExecVars == << profile_id, attempt, exec_pc >>

\* ------------------------------------------------------------------------
\* scrape_and_connect: start of a run (lines 170-218)
\* ------------------------------------------------------------------------
ResetLocals(ledger) ==
  /\ previous_profile_ids' = ledger
  /\ company_idx' = 1
  /\ profiles_to_try' = <<>>
  /\ attempts_for_company' = 0
  /\ successful_connections' = 0
  /\ connection_attempts' = <<>>
  /\ profile_id' = ""
  /\ attempt' = 0
  /\ exec_pc' = "none"
  /\ exec_log' = <<>>
  /\ api_calls' = {}
  /\ submitted_for_company' = 0
  /\ calls_started' = 0
  /\ scrapes_after_target' = 0
  /\ target_delays' = 0
  /\ batch_delayed' = FALSE
  /\ scrape_raised_at' = 0

\* The ledger file is absent, or it is read: previous_profile_ids is the set
\* of the parsed 'profile_id' cells.
StartRun ==
  /\ pc = "idle"
  /\ runs < MaxRuns
  /\ runs' = runs + 1
  /\ pc' = "company"
  /\ ResetLocals(IF FileExists THEN LoadedProfileIds(ledger_file) ELSE {})
  /\ boot_failed' = FALSE
  /\ UNCHANGED << ledger_file, Config, MsgVars, TriageVars, FnVars,
                  killed_ids >>

\* The ledger file exists and reading it raises: the except branch leaves an
\* empty set.
StartRunLoadFails ==
  /\ pc = "idle"
  /\ runs < MaxRuns
  /\ FileExists
  /\ runs' = runs + 1
  /\ pc' = "company"
  /\ ResetLocals({})
  /\ boot_failed' = FALSE
  /\ UNCHANGED << ledger_file, Config, MsgVars, TriageVars, FnVars,
                  killed_ids >>

\* ------------------------------------------------------------------------
\* main (lines 348-367): the initialisation of the session fails
\* ------------------------------------------------------------------------
\* Variant: the failure is swallowed and scrape_and_connect is entered.
InitializeFailsGoesOn ==
  /\ pc = "idle"
  /\ runs < MaxRuns
  /\ runs' = runs + 1
  /\ boot_failed' = TRUE
  /\ pc' = "company"
  /\ ResetLocals({})
  /\ UNCHANGED << ledger_file, Config, MsgVars, TriageVars, FnVars,
                  killed_ids >>

\* initialize_linkedin_session raises (credentials missing, or the session
\* cannot be set up), or initialize_linkedin_api_session raises: main logs
\* and raises again, scrape_and_connect is never entered.
InitializeFails ==
  /\ pc = "idle"
  /\ runs < MaxRuns
  /\ runs' = runs + 1
  /\ boot_failed' = TRUE
  /\ pc' = "idle"
  /\ ResetLocals({})
  /\ UNCHANGED << ledger_file, Config, MsgVars, TriageVars, FnVars,
                  killed_ids >>

\* ------------------------------------------------------------------------
\* scrape_and_connect: the loop over selected_companies (lines 221-239, 318)
\* ------------------------------------------------------------------------
CompanyFrame ==
  UNCHANGED << ledger_file, runs, Config, MsgVars, TriageVars, FnVars,
               previous_profile_ids,
               successful_connections, target_delays, connection_attempts,
               ExecVars, api_calls, calls_started, killed_ids, boot_failed >>

\* Every scrape_staff call passes here.
ScrapeIssued ==
  /\ scrapes_after_target' =
       IF successful_connections = target_connections
       THEN scrapes_after_target + 1 ELSE scrapes_after_target
  /\ batch_delayed' = FALSE

CompaniesExhausted ==
  /\ pc = "company"
  /\ company_idx > num_companies
  /\ pc' = "save"
  /\ exec_log' = <<>>
  /\ UNCHANGED << company_idx, profiles_to_try, attempts_for_company,
                  submitted_for_company, scrapes_after_target, batch_delayed,
                  scrape_raised_at >>
  /\ CompanyFrame

TargetReached ==
  /\ pc = "company"
  /\ company_idx <= num_companies
  /\ TargetMet(successful_connections, target_connections)
  /\ pc' = "save"
  /\ exec_log' = <<>>
  /\ UNCHANGED << company_idx, profiles_to_try, attempts_for_company,
                  submitted_for_company, scrapes_after_target, batch_delayed,
                  scrape_raised_at >>
  /\ CompanyFrame

CanScrape ==
  /\ pc = "company"
  /\ company_idx <= num_companies
  /\ ~TargetMet(successful_connections, target_connections)

\* Variant: the exception of scrape_staff ends the loop over the companies.
ScrapeRaisesAborts ==
  /\ CanScrape
  /\ ScrapeIssued
  /\ scrape_raised_at' = company_idx
  /\ pc' = "save"
  /\ exec_log' = <<>>
  /\ UNCHANGED << company_idx, profiles_to_try, attempts_for_company,
                  submitted_for_company >>
  /\ CompanyFrame

\* scrape_staff raises: except ...: continue  (lines 318-320)
ScrapeRaises ==
  /\ CanScrape
  /\ ScrapeIssued
  /\ scrape_raised_at' = company_idx
  /\ company_idx' = company_idx + 1
  /\ exec_log' = <<>>
  /\ UNCHANGED << pc, profiles_to_try, attempts_for_company,
                  submitted_for_company >>
  /\ CompanyFrame

\* scrape_staff returns an empty DataFrame: the body of
\* 'if not staff_df.empty' is skipped, the delay of lines 313-316 included.
ScrapeEmpty ==
  /\ CanScrape
  /\ ScrapeIssued
  /\ company_idx' = company_idx + 1
  /\ exec_log' = <<>>
  /\ UNCHANGED << pc, profiles_to_try, attempts_for_company,
                  submitted_for_company, scrape_raised_at >>
  /\ CompanyFrame

ScrapeBatch ==
  /\ CanScrape
  /\ ScrapeIssued
  /\ \E batch \in Batches : profiles_to_try' = batch
  /\ attempts_for_company' = 0
  /\ submitted_for_company' = 0
  /\ pc' = "profile"
  /\ exec_log' = <<>>
  /\ UNCHANGED << company_idx, scrape_raised_at >>
  /\ CompanyFrame

\* ------------------------------------------------------------------------
\* scrape_and_connect: the loop over profiles_to_try (lines 255-281, 310-316)
\* ------------------------------------------------------------------------
ProfileFrame ==
  UNCHANGED << ledger_file, runs, Config, MsgVars, TriageVars, FnVars,
               previous_profile_ids,
               successful_connections, target_delays, connection_attempts,
               api_calls, scrapes_after_target, scrape_raised_at, killed_ids,
               boot_failed >>

\* Lines 310-316: leave the sub-loop, sleep random.randint(60, 180) seconds,
\* go on with the next company.
EndCompany ==
  /\ company_idx' = company_idx + 1
  /\ batch_delayed' = TRUE
  /\ profiles_to_try' = <<>>
  /\ pc' = "company"
  /\ exec_log' = <<>>
  /\ UNCHANGED << attempts_for_company, submitted_for_company, calls_started,
                  ExecVars >>
  /\ ProfileFrame

ProfilesExhausted ==
  /\ pc = "profile"
  /\ profiles_to_try = <<>>
  /\ EndCompany

BreakTarget ==
  /\ pc = "profile"
  /\ profiles_to_try # <<>>
  /\ TargetMet(successful_connections, target_connections)
  /\ EndCompany

BreakCap ==
  /\ pc = "profile"
  /\ profiles_to_try # <<>>
  /\ ~TargetMet(successful_connections, target_connections)
  /\ CapReached(attempts_for_company, max_attempts_per_company)
  /\ EndCompany

CanTry ==
  /\ pc = "profile"
  /\ profiles_to_try # <<>>
  /\ ~TargetMet(successful_connections, target_connections)
  /\ ~CapReached(attempts_for_company, max_attempts_per_company)

SkipNoId ==
  /\ CanTry
  /\ HasNoId(ResolveProfileId(Head(profiles_to_try)))
  /\ profiles_to_try' = Tail(profiles_to_try)
  /\ exec_log' = <<>>
  /\ UNCHANGED << pc, company_idx, attempts_for_company,
                  submitted_for_company, calls_started, batch_delayed,
                  ExecVars >>
  /\ ProfileFrame

\* Variant: a target skipped as already attempted uses up the cap.
SkipAlreadyAttemptedCounts ==
  /\ CanTry
  /\ ~HasNoId(ResolveProfileId(Head(profiles_to_try)))
  /\ AlreadyAttempted(ResolveProfileId(Head(profiles_to_try)),
                      previous_profile_ids)
  /\ profiles_to_try' = Tail(profiles_to_try)
  /\ attempts_for_company' = attempts_for_company + 1
  /\ exec_log' = <<>>
  /\ UNCHANGED << pc, company_idx,
                  submitted_for_company, calls_started, batch_delayed,
                  ExecVars >>
  /\ ProfileFrame

SkipAlreadyAttempted ==
  /\ CanTry
  /\ ~HasNoId(ResolveProfileId(Head(profiles_to_try)))
  /\ AlreadyAttempted(ResolveProfileId(Head(profiles_to_try)),
                      previous_profile_ids)
  /\ profiles_to_try' = Tail(profiles_to_try)
  /\ exec_log' = <<>>
  /\ UNCHANGED << pc, company_idx, attempts_for_company,
                  submitted_for_company, calls_started, batch_delayed,
                  ExecVars >>
  /\ ProfileFrame

\* Lines 277-281 and the entry of send_connection_request.
BeginConnect ==
  /\ CanTry
  /\ ~HasNoId(ResolveProfileId(Head(profiles_to_try)))
  /\ ~AlreadyAttempted(ResolveProfileId(Head(profiles_to_try)),
                       previous_profile_ids)
  /\ attempts_for_company' = attempts_for_company + 1
  /\ submitted_for_company' = submitted_for_company + 1
  /\ calls_started' = calls_started + 1
  /\ profile_id' = ResolveProfileId(Head(profiles_to_try))
  /\ profiles_to_try' = Tail(profiles_to_try)
  /\ attempt' = 0
  /\ exec_pc' = "lookup"
  /\ exec_log' = <<>>
  /\ pc' = "exec"
  /\ UNCHANGED << company_idx, batch_delayed >>
  /\ ProfileFrame

\* ------------------------------------------------------------------------
\* send_connection_request (lines 129-168) and the caller's bookkeeping of
\* its result (lines 281-304)
\* ------------------------------------------------------------------------
ExecFrame ==
  UNCHANGED << ledger_file, runs, Config, MsgVars, TriageVars, FnVars,
               previous_profile_ids, company_idx,
               profiles_to_try, attempts_for_company, submitted_for_company,
               calls_started, scrapes_after_target, batch_delayed,
               scrape_raised_at, killed_ids, boot_failed >>

\* Variant: the reason kept is that of the first exception of the call.
FirstFailureReason(log, e) ==
  LET raised == { i \in DOMAIN log : log[i].err # "" }
  IN  IF raised = {} THEN e
      ELSE log[CHOOSE i \in raised : \A j \in raised : i <= j].err

\* return False, str(e)   (line 164)
ExhaustedReason(log, e) == e

\* Variant: the delay between targets is slept after a failure as well.
ReturnAlwaysDelays(success, message) ==
  /\ connection_attempts' =
       Append(connection_attempts, AttemptRecord(profile_id, success, message))
  /\ successful_connections' =
       IF success THEN successful_connections + 1 ELSE successful_connections
  /\ target_delays' = target_delays + 1
  /\ pc' = "profile"
  /\ exec_pc' = "none"
  /\ profile_id' = ""
  /\ attempt' = 0

\* The executor returns (success, message); the caller appends one record
\* and, on success, counts it and sleeps random.uniform(45, 90) seconds; on
\* failure it goes straight back to the loop over profiles_to_try.
Return(success, message) ==
  /\ connection_attempts' =
       Append(connection_attempts, AttemptRecord(profile_id, success, message))
  /\ successful_connections' =
       IF success THEN successful_connections + 1 ELSE successful_connections
  /\ target_delays' = IF success THEN target_delays + 1 ELSE target_delays
  /\ pc' = "profile"
  /\ exec_pc' = "none"
  /\ profile_id' = ""
  /\ attempt' = 0

\* Variant: every failed attempt leaves a record of its own.
NextAttemptRecording ==
  /\ attempt' = attempt + 1
  /\ exec_pc' = "sleep"
  /\ connection_attempts' =
       Append(connection_attempts, AttemptRecord(profile_id, FALSE, "retry"))
  /\ UNCHANGED << pc, profile_id, successful_connections, target_delays >>

\* continue: the next iteration of range(max_retries)
NextAttempt ==
  /\ attempt' = attempt + 1
  /\ exec_pc' = "sleep"
  /\ UNCHANGED << pc, profile_id, connection_attempts, successful_connections,
                  target_delays >>

\* if attempt > 0: time.sleep(retry_delay)
RetrySleep ==
  /\ pc = "exec"
  /\ exec_pc = "sleep"
  /\ attempt > 0
  /\ exec_log' = Append(exec_log, Event(attempt, "sleep", ""))
  /\ exec_pc' = "lookup"
  /\ UNCHANGED << pc, profile_id, attempt, connection_attempts,
                  successful_connections, target_delays, api_calls >>
  /\ ExecFrame

\* get_profile returns a profile.
LookupFound ==
  /\ pc = "exec"
  /\ exec_pc = "lookup"
  /\ api_calls' = api_calls \cup {profile_id}
  /\ exec_log' = Append(exec_log, Event(attempt, "lookup_ok", ""))
  /\ exec_pc' = "add"
  /\ UNCHANGED << pc, profile_id, attempt, connection_attempts,
                  successful_connections, target_delays >>
  /\ ExecFrame

\* Variant: the request is issued although the lookup found nothing.
LookupNotFoundGoesOn ==
  /\ pc = "exec"
  /\ exec_pc = "lookup"
  /\ api_calls' = api_calls \cup {profile_id}
  /\ exec_log' = Append(exec_log, Event(attempt, "lookup_none", ""))
  /\ exec_pc' = "add"
  /\ UNCHANGED << pc, profile_id, attempt, connection_attempts,
                  successful_connections, target_delays >>
  /\ ExecFrame

\* get_profile returns nothing: return False, "Profile not found ..."
LookupNotFound ==
  /\ pc = "exec"
  /\ exec_pc = "lookup"
  /\ api_calls' = api_calls \cup {profile_id}
  /\ exec_log' = Append(exec_log, Event(attempt, "lookup_none", ""))
  /\ Return(FALSE, MsgNotFound)
  /\ ExecFrame

\* Variant: a raising lookup ends the call at once.
LookupRaisesAborts ==
  /\ pc = "exec"
  /\ exec_pc = "lookup"
  /\ api_calls' = api_calls \cup {profile_id}
  /\ \E e \in errs :
       /\ exec_log' = Append(exec_log, Event(attempt, "lookup_raise", e))
       /\ Return(FALSE, CouldNotFetch(e))
  /\ ExecFrame

\* get_profile raises (lines 145-149).
LookupRaises ==
  /\ pc = "exec"
  /\ exec_pc = "lookup"
  /\ api_calls' = api_calls \cup {profile_id}
  /\ \E e \in errs :
       /\ exec_log' = Append(exec_log, Event(attempt, "lookup_raise", e))
       /\ IF IsLastAttempt(attempt)
          THEN Return(FALSE, CouldNotFetch(e))
          ELSE NextAttempt
  /\ ExecFrame

\* Variant: the polarity of the response is read the other way round.
AddAcceptedInverted ==
  /\ pc = "exec"
  /\ exec_pc = "add"
  /\ api_calls' = api_calls \cup {profile_id}
  /\ exec_log' = Append(exec_log, Event(attempt, "add_ok", ""))
  /\ Return(FALSE, MsgFailed)
  /\ ExecFrame

\* add_connection returns False: the request was sent.
AddAccepted ==
  /\ pc = "exec"
  /\ exec_pc = "add"
  /\ api_calls' = api_calls \cup {profile_id}
  /\ exec_log' = Append(exec_log, Event(attempt, "add_ok", ""))
  /\ Return(TRUE, MsgSent)
  /\ ExecFrame

\* add_connection returns anything else: return False, "Failed to send ..."
AddRejected ==
  /\ pc = "exec"
  /\ exec_pc = "add"
  /\ api_calls' = api_calls \cup {profile_id}
  /\ exec_log' = Append(exec_log, Event(attempt, "add_fail", ""))
  /\ Return(FALSE, MsgFailed)
  /\ ExecFrame

\* add_connection raises (lines 162-166).
AddRaises ==
  /\ pc = "exec"
  /\ exec_pc = "add"
  /\ api_calls' = api_calls \cup {profile_id}
  /\ \E e \in errs :
       /\ exec_log' = Append(exec_log, Event(attempt, "add_raise", e))
       /\ IF IsLastAttempt(attempt)
          THEN Return(FALSE, ExhaustedReason(exec_log, e))
          ELSE NextAttempt
  /\ ExecFrame

\* ------------------------------------------------------------------------
\* scrape_and_connect: end of the run (lines 328-346), and an external kill
\* ------------------------------------------------------------------------
EndRun ==
  /\ pc' = "idle"
  /\ ResetLocals({})
  /\ UNCHANGED << runs, Config, MsgVars, TriageVars, FnVars, boot_failed >>

\* No attempt was made: nothing is written.
SaveNothing ==
  /\ pc = "save"
  /\ connection_attempts = <<>>
  /\ EndRun
  /\ UNCHANGED << ledger_file, killed_ids >>

\* all_attempts = rows of the existing file + connection_attempts, written
\* back to the file.
ProfileIdColumn(attempts) ==
  [i \in 1..Len(attempts) |-> attempts[i].profile_id]

MergedLedger(file, attempts) ==
  to_csv(read_csv(file) \o ProfileIdColumn(attempts))

SaveLedger ==
  /\ pc = "save"
  /\ connection_attempts # <<>>
  /\ ledger_file' = MergedLedger(ledger_file, connection_attempts)
  /\ EndRun
  /\ UNCHANGED killed_ids

\* Reading the existing file raises: the except branch only logs.
SaveLedgerFails ==
  /\ pc = "save"
  /\ connection_attempts # <<>>
  /\ FileExists
  /\ EndRun
  /\ UNCHANGED << ledger_file, killed_ids >>

AttemptedIds(attempts) == { attempts[i].profile_id : i \in 1..Len(attempts) }

\* The process is killed while the run is under way: its in-memory state is
\* gone, the ledger file is as the last completed run left it.
Kill ==
  /\ pc \in InRun
  /\ killed_ids' = killed_ids \cup AttemptedIds(connection_attempts)
  /\ EndRun
  /\ UNCHANGED ledger_file

\* ------------------------------------------------------------------------
\* Specification of the campaign pipeline
\* ------------------------------------------------------------------------
Next ==
  \/ StartRun
  \/ StartRunLoadFails
  \/ InitializeFails
  \/ CompaniesExhausted
  \/ TargetReached
  \/ ScrapeRaises
  \/ ScrapeEmpty
  \/ ScrapeBatch
  \/ ProfilesExhausted
  \/ BreakTarget
  \/ BreakCap
  \/ SkipNoId
  \/ SkipAlreadyAttempted
  \/ BeginConnect
  \/ RetrySleep
  \/ LookupFound
  \/ LookupNotFound
  \/ LookupRaises
  \/ AddAccepted
  \/ AddRejected
  \/ AddRaises
  \/ SaveNothing
  \/ SaveLedger
  \/ SaveLedgerFails
  \/ Kill

Spec == Init /\ [][Next]_vars

\* ------------------------------------------------------------------------
\* Specification of one call of send_connection_request, as made for the
\* first target of a first run, with a collaborator that may raise any of
\* the messages of Errs
\* ------------------------------------------------------------------------
InitExec ==
  /\ MsgIdle
  /\ TriageIdle
  /\ FnIdle
  /\ ledger_file = <<>>
  /\ errs = Errs
  /\ runs = 1
  /\ pc = "exec"
  /\ num_companies = 1
  /\ max_attempts_per_company = 1
  /\ target_connections = CodeTarget
  /\ killed_ids = {}
  /\ previous_profile_ids = {}
  /\ company_idx = 1
  /\ profiles_to_try = <<>>
  /\ attempts_for_company = 1
  /\ successful_connections = 0
  /\ connection_attempts = <<>>
  /\ profile_id \in Ids
  /\ attempt = 0
  /\ exec_pc = "lookup"
  /\ exec_log = <<>>
  /\ api_calls = {}
  /\ submitted_for_company = 1
  /\ calls_started = 1
  /\ scrapes_after_target = 0
  /\ target_delays = 0
  /\ batch_delayed = FALSE
  /\ scrape_raised_at = 0
  /\ boot_failed = FALSE

NextExec ==
  \/ RetrySleep
  \/ LookupFound
  \/ LookupNotFound
  \/ LookupRaises
  \/ AddAccepted
  \/ AddRejected
  \/ AddRaises

SpecExec == InitExec /\ [][NextExec]_vars

\* ------------------------------------------------------------------------
\* Pipeline 2: main of pipe_2_final_jan17.py (lines 193-290)
\* ------------------------------------------------------------------------
P1Vars ==
  << ledger_file, errs, runs, pc, num_companies, target_connections,
     max_attempts_per_company, previous_profile_ids, company_idx,
     profiles_to_try, attempts_for_company, successful_connections,
     connection_attempts, profile_id, attempt, exec_pc, exec_log, api_calls,
     submitted_for_company, calls_started, scrapes_after_target, killed_ids,
     target_delays, batch_delayed, scrape_raised_at, boot_failed >>

\* connection.name == "LinkedIn Member" or not
ConnectionKinds == {"member", "restricted"}

ConnectionLists ==
  UNION { [1..n -> ConnectionKinds] : n \in 0..MaxConnections }

RECURSIVE Pow2(_)
Pow2(n) == IF n = 0 THEN 1 ELSE 2 * Pow2(n - 1)

Min(a, b) == IF a <= b THEN a ELSE b

\* Samples of random.uniform(0, base)
Jitter(base) == {0, base \div 2, base - 1}

\* Variant: the delay is not capped.
DelayForAttemptUncapped(n, jitter) == base_delay * Pow2(n) + jitter

\* min(max_delay, base_delay * (2 ** attempt) + jitter)   (lines 266-269)
DelayForAttempt(n, jitter) == Min(max_delay, base_delay * Pow2(n) + jitter)

\* attempt = retry_count + 1   (line 263)
AttemptNumber(count) == count + 1

\* The delay slept with retry_count = count.
BackoffDelay(count, jitter) == DelayForAttempt(AttemptNumber(count), jitter)

\* min(max_delay, base_delay * (2 ** connection_index) + jitter)
PauseDelay(index, jitter) ==
  Min(pause_max_delay, pause_base_delay * Pow2(index) + jitter)

\* retry_count += 1.  The model stops counting at MaxRetryCount: from 2 on
\* the exponential term alone exceeds max_delay.
CountRetry(count) == IF count < MaxRetryCount THEN count + 1 ELSE count

InitMsg ==
  /\ TriageIdle
  /\ FnIdle
  /\ m_pc = "start"
  /\ connections = <<>>
  /\ m_idx = 1
  /\ retry_count = 0
  /\ m_delay = 0
  /\ m_sends = {}
  /\ m_llm_failed = {}
  /\ m_send_log = {}
  /\ ledger_file = <<>>
  /\ errs = {"timeout"}
  /\ runs = 0
  /\ pc = "idle"
  /\ num_companies = 1
  /\ max_attempts_per_company = 1
  /\ target_connections = CodeTarget
  /\ killed_ids = {}
  /\ boot_failed = FALSE
  /\ FreshLocals

\* connections = scraper.scrape_connections(...)
MScrape ==
  /\ m_pc = "start"
  /\ \E list \in ConnectionLists : connections' = list
  /\ m_pc' = "next"
  /\ UNCHANGED << m_idx, retry_count, m_delay, m_sends,
                  m_llm_failed, m_send_log >>
  /\ UNCHANGED << P1Vars, TriageVars, FnVars >>

\* The loop over connections is over.
MDone ==
  /\ m_pc = "next"
  /\ m_idx > Len(connections)
  /\ m_pc' = "done"
  /\ UNCHANGED << connections, m_idx, retry_count, m_delay, m_sends,
                  m_llm_failed, m_send_log >>
  /\ UNCHANGED << P1Vars, TriageVars, FnVars >>

\* continue: the next connection
MContinue ==
  /\ m_idx' = m_idx + 1
  /\ m_pc' = "next"
  /\ UNCHANGED << connections, retry_count, m_delay, m_sends, m_send_log >>
  /\ UNCHANGED << P1Vars, TriageVars, FnVars >>

\* if connection.name == "LinkedIn Member": continue
MSkipRestricted ==
  /\ m_pc = "next"
  /\ m_idx <= Len(connections)
  /\ connections[m_idx] = "restricted"
  /\ UNCHANGED m_llm_failed
  /\ MContinue

\* Building profile_data raises: except ...: continue  (lines 288-290)
MProfileRaises ==
  /\ m_pc = "next"
  /\ m_idx <= Len(connections)
  /\ connections[m_idx] # "restricted"
  /\ UNCHANGED m_llm_failed
  /\ MContinue

\* Variant: with no message from get_llm_response the send loop is entered
\* all the same.
MLlmFailsSendsAnyway ==
  /\ m_pc = "next"
  /\ m_idx <= Len(connections)
  /\ connections[m_idx] # "restricted"
  /\ m_llm_failed' = m_llm_failed \cup {m_idx}
  /\ retry_count' = 0
  /\ m_pc' = "send"
  /\ UNCHANGED << connections, m_idx, m_delay, m_sends, m_send_log >>
  /\ UNCHANGED << P1Vars, TriageVars, FnVars >>

\* get_llm_response returns None: if not message: continue  (lines 233-236)
MLlmFails ==
  /\ m_pc = "next"
  /\ m_idx <= Len(connections)
  /\ connections[m_idx] # "restricted"
  /\ m_llm_failed' = m_llm_failed \cup {m_idx}
  /\ MContinue

\* get_llm_response returns a message: retry_count = 0, enter the send loop
MLlmOk ==
  /\ m_pc = "next"
  /\ m_idx <= Len(connections)
  /\ connections[m_idx] # "restricted"
  /\ retry_count' = 0
  /\ m_pc' = "send"
  /\ UNCHANGED << connections, m_idx, m_delay, m_sends,
                  m_llm_failed, m_send_log >>
  /\ UNCHANGED << P1Vars, TriageVars, FnVars >>

\* send_message returns a falsy error: logged as sent, break
MSendOk ==
  /\ m_pc = "send"
  /\ m_sends' = m_sends \cup {m_idx}
  /\ m_send_log' = m_send_log \cup {SendResult("falsy", "succeeded")}
  /\ m_pc' = "pause"
  /\ UNCHANGED << connections, m_idx, retry_count, m_delay, m_llm_failed >>
  /\ UNCHANGED << P1Vars, TriageVars, FnVars >>

\* send_message returns a truthy error: logged as failed, retry_count += 1
MSendError ==
  /\ m_pc = "send"
  /\ m_sends' = m_sends \cup {m_idx}
  /\ m_send_log' = m_send_log \cup {SendResult("truthy", "failed")}
  /\ retry_count' = CountRetry(retry_count)
  /\ m_pc' = "backoff"
  /\ UNCHANGED << connections, m_idx, m_delay, m_llm_failed >>
  /\ UNCHANGED << P1Vars, TriageVars, FnVars >>

\* send_message raises: logged as failed, retry_count += 1
MSendRaises ==
  /\ m_pc = "send"
  /\ m_sends' = m_sends \cup {m_idx}
  /\ m_send_log' = m_send_log \cup {SendResult("raised", "failed")}
  /\ retry_count' = CountRetry(retry_count)
  /\ m_pc' = "backoff"
  /\ UNCHANGED << connections, m_idx, m_delay, m_llm_failed >>
  /\ UNCHANGED << P1Vars, TriageVars, FnVars >>

\* Lines 260-272: the backoff, then the next turn of while True
MBackoff ==
  /\ m_pc = "backoff"
  /\ \E jitter \in Jitter(base_delay) :
       m_delay' = BackoffDelay(retry_count, jitter)
  /\ m_pc' = "send"
  /\ UNCHANGED << connections, m_idx, retry_count, m_sends,
                  m_llm_failed, m_send_log >>
  /\ UNCHANGED << P1Vars, TriageVars, FnVars >>

\* Lines 274-286: the delay before the next connection
MPause ==
  /\ m_pc = "pause"
  /\ \E jitter \in Jitter(pause_base_delay) :
       m_delay' = PauseDelay(m_idx - 1, jitter)
  /\ m_idx' = m_idx + 1
  /\ m_pc' = "next"
  /\ UNCHANGED << connections, retry_count, m_sends,
                  m_llm_failed, m_send_log >>
  /\ UNCHANGED << P1Vars, TriageVars, FnVars >>

NextMsg ==
  \/ MScrape
  \/ MDone
  \/ MSkipRestricted
  \/ MProfileRaises
  \/ MLlmFails
  \/ MLlmOk
  \/ MSendOk
  \/ MSendError
  \/ MSendRaises
  \/ MBackoff
  \/ MPause

SpecMsg == InitMsg /\ [][NextMsg]_vars

\* The program is sequential and runs on: a step that can be taken is taken.
FairSpecMsg == SpecMsg /\ WF_vars(NextMsg)

\* ------------------------------------------------------------------------
\* Pipeline 3: main of pipe_3_final_jan20.py (lines 232-343)
\* ------------------------------------------------------------------------
\* A text is the sequence of its characters.
Digits == {"0", "1", "2", "3", "4", "5", "6", "7", "8", "9"}

\* [6789]
LeadDigits == {"6", "7", "8", "9"}

\* [a-zA-Z]
Letters ==
  {"a", "b", "c", "d", "e", "f", "g", "h", "i", "j", "k", "l", "m",
   "n", "o", "p", "q", "r", "s", "t", "u", "v", "w", "x", "y", "z",
   "A", "B", "C", "D", "E", "F", "G", "H", "I", "J", "K", "L", "M",
   "N", "O", "P", "Q", "R", "S", "T", "U", "V", "W", "X", "Y", "Z"}

\* [a-zA-Z0-9._%+-]
LocalChars == Letters \cup Digits \cup {".", "_", "%", "+", "-"}

\* [a-zA-Z0-9.-]
DomainChars == Letters \cup Digits \cup {".", "-"}

\* The literal lit stands in text at position i.
LiteralAt(text, i, lit) ==
  /\ i + Len(lit) - 1 <= Len(text)
  /\ \A k \in 1 .. Len(lit) : text[i + k - 1] = lit[k]

\* Variant: any digit may lead the number.
NationalNumberAnyLead(text, i) ==
  /\ i >= 1
  /\ i + 9 <= Len(text)
  /\ \A k \in 0 .. 9 : text[i + k] \in Digits

\* [6789]\d{9} stands in text at position i.
NationalNumberAt(text, i) ==
  /\ i >= 1
  /\ i + 9 <= Len(text)
  /\ text[i] \in LeadDigits
  /\ \A k \in 1 .. 9 : text[i + k] \in Digits

\* Length of the match of phone_pattern at position i, 0 when there is none:
\* the optional group is tried with +91, then with 0, then left out.
PhoneMatchLen(text, i) ==
  IF LiteralAt(text, i, << "+", "9", "1" >>) /\ NationalNumberAt(text, i + 3)
  THEN 13
  ELSE IF LiteralAt(text, i, << "0" >>) /\ NationalNumberAt(text, i + 1)
  THEN 11
  ELSE IF NationalNumberAt(text, i) THEN 10 ELSE 0

\* Number of characters from position i on that are all in class.
RECURSIVE RunLen(_, _, _)
RunLen(text, i, class) ==
  IF i > Len(text) \/ i < 1 THEN 0
  ELSE IF text[i] \in class THEN 1 + RunLen(text, i + 1, class) ELSE 0

\* Positions of the dot of \.[a-zA-Z]{2,} that leave [a-zA-Z0-9.-]+ at least
\* one character of the domain run starting at position d.
DotPositions(text, d) ==
  { k \in (d + 1) .. (d + RunLen(text, d, DomainChars) - 1) :
      text[k] = "." /\ RunLen(text, k + 1, Letters) >= 2 }

Maximum(S) == CHOOSE x \in S : \A y \in S : y <= x

\* Length of the match of email_pattern at position i, 0 when there is none.
\* Each + is greedy: the local part is the whole run up to the @, and the
\* domain gives back characters down to the last dot that two letters follow.
EmailMatchLen(text, i) ==
  LET local == RunLen(text, i, LocalChars)
      d == i + local + 1
  IN IF local = 0 \/ ~LiteralAt(text, i + local, << "@" >>) THEN 0
     ELSE IF DotPositions(text, d) = {} THEN 0
     ELSE LET k == Maximum(DotPositions(text, d))
          IN k + RunLen(text, k + 1, Letters) - i + 1

\* re.findall(phone_pattern, text) from position i on: matches left to
\* right, the scan going on behind each match.
RECURSIVE FindPhones(_, _)
FindPhones(text, i) ==
  IF i > Len(text) THEN << >>
  ELSE LET n == PhoneMatchLen(text, i)
       IN IF n > 0
          THEN << SubSeq(text, i, i + n - 1) >> \o FindPhones(text, i + n)
          ELSE FindPhones(text, i + 1)

\* re.findall(email_pattern, text) from position i on.
RECURSIVE FindEmails(_, _)
FindEmails(text, i) ==
  IF i > Len(text) THEN << >>
  ELSE LET n == EmailMatchLen(text, i)
       IN IF n > 0
          THEN << SubSeq(text, i, i + n - 1) >> \o FindEmails(text, i + n)
          ELSE FindEmails(text, i + 1)

\* Variant: the prefix stays on the number.
CleanNumberKeepsPrefix(num) == num

\* re.sub(r'^(?:\+91|0)', '', num)
CleanNumber(num) ==
  IF LiteralAt(num, 1, << "+", "9", "1" >>) THEN SubSeq(num, 4, Len(num))
  ELSE IF LiteralAt(num, 1, << "0" >>) THEN SubSeq(num, 2, Len(num))
  ELSE num

\* extract_contact_details: the matches of phone_pattern, each cleaned, and
\* the matches of email_pattern; both are lists, empty when nothing matches.
extract_contact_details(text) ==
  LET phone_numbers == FindPhones(text, 1)
  IN [phone_numbers |->
        [k \in 1 .. Len(phone_numbers) |-> CleanNumber(phone_numbers[k])],
      emails |-> FindEmails(text, 1)]

\* Texts of the messages of the inbox.
Texts ==
  { << "h", "i" >>,
    << "9", "8", "7", "6", "5", "4", "3", "2", "1", "0" >>,
    << "a", "@", "b", ".", "c", "o" >> }

\* contact_details['phone_numbers'] or contact_details['emails']
HasContact(details) == details.phone_numbers # <<>> \/ details.emails # <<>>

\* entityUrn of a MessagingMember as its ':'-separated segments; <<>> is the
\* empty string that extract_participant_data puts in for a missing URN.
ParticipantIds == { <<"urn", "li", "member", "7">>, <<>> }

\* extract_urn_id: None (here "") for an empty participant_id, else
\* participant_id.split(':')[-1]
extract_urn_id(participant_id) ==
  IF participant_id = <<>> THEN "" ELSE participant_id[Len(participant_id)]

MessageLists == UNION { [1..n -> Texts] : n \in 0..MaxMessages }

ParticipantLists ==
  UNION { [1..n -> ParticipantIds] : n \in 1..MaxParticipants }

\* One element of conversations['elements']: its unreadCount, the texts of
\* its message events and the entityUrn of its participants.
Conversations ==
  [unread_count : {0, 1}, messages : MessageLists,
   participants : ParticipantLists]

Inboxes == UNION { [1..n -> Conversations] : n \in 0..MaxConversations }

\* conv_info; the position in the inbox stands for the entityUrn.
ConvInfo(i) ==
  [conversation_id |-> i, unread_count |-> inbox[i].unread_count]

\* contact_data; the position of the message stands for its entityUrn.
ContactFact(i, m, details) ==
  [conversation_id |-> i, message_id |-> m,
   phone_numbers |-> details.phone_numbers, emails |-> details.emails]

\* participant_info, tagged with the conversation and the position it was
\* extracted from.
ParticipantInfo(i, p) ==
  [conversation |-> i, position |-> p,
   participant_id |-> inbox[i].participants[p]]

InitTriage ==
  /\ MsgIdle
  /\ FnIdle
  /\ FirstPass
  /\ t_pc = "start"
  /\ inbox = <<>>
  /\ t_idx = 1
  /\ t_msg = 1
  /\ t_part = 1
  /\ contact_found = FALSE
  /\ conversation_data = <<>>
  /\ contact_details_data = <<>>
  /\ participant_data = <<>>
  /\ participant_files = {}
  /\ t_send_log = <<>>
  /\ ledger_file = <<>>
  /\ errs = {"timeout"}
  /\ runs = 0
  /\ pc = "idle"
  /\ num_companies = 1
  /\ max_attempts_per_company = 1
  /\ target_connections = CodeTarget
  /\ killed_ids = {}
  /\ boot_failed = FALSE
  /\ FreshLocals

TriageFrame == UNCHANGED << P1Vars, MsgVars, FnVars, PassVars >>

\* An exception reaches the except of main (lines 341-343): logged, raised
\* again; the process ends without the CSV files.
TAbort ==
  /\ t_pc' = "aborted"
  /\ UNCHANGED << inbox, t_idx, t_msg, t_part, contact_found,
                  conversation_data, contact_details_data, participant_files,
                  t_send_log >>
  /\ TriageFrame

\* The initialisation of the session, api.get_conversations() or
\* save_raw_json of the raw response raises.
TFetchRaises ==
  /\ t_pc = "start"
  /\ UNCHANGED participant_data
  /\ TAbort

\* conversations = api.get_conversations(); elements = ...
TFetch ==
  /\ t_pc = "start"
  /\ \E list \in Inboxes : inbox' = list
  /\ t_pc' = "conv"
  /\ UNCHANGED << t_idx, t_msg, t_part, contact_found, conversation_data,
                  contact_details_data, participant_data, participant_files,
                  t_send_log >>
  /\ TriageFrame

\* The loop over elements is over: the three CSV files are written.
TPersist ==
  /\ t_pc = "conv"
  /\ t_idx > Len(inbox)
  /\ t_pc' = "done"
  /\ UNCHANGED << inbox, t_idx, t_msg, t_part, contact_found,
                  conversation_data, contact_details_data, participant_data,
                  participant_files, t_send_log >>
  /\ TriageFrame

\* extract_conversation_data raises (lines 266, 84).
TMetadataRaises ==
  /\ t_pc = "conv"
  /\ t_idx <= Len(inbox)
  /\ UNCHANGED participant_data
  /\ TAbort

\* Variant: the messages are looked at whatever the unread count.
TConversationAlwaysReads ==
  /\ t_pc = "conv"
  /\ t_idx <= Len(inbox)
  /\ conversation_data' = Append(conversation_data, ConvInfo(t_idx))
  /\ t_pc' = "msgs"
  /\ t_msg' = 1
  /\ contact_found' = FALSE
  /\ UNCHANGED << inbox, t_idx, t_part, contact_details_data,
                  participant_data, participant_files, t_send_log >>
  /\ TriageFrame

\* conv_info is appended; with unread_count > 0 the messages are processed,
\* otherwise the participants at once (lines 266-278, 304).
TConversation ==
  /\ t_pc = "conv"
  /\ t_idx <= Len(inbox)
  /\ conversation_data' = Append(conversation_data, ConvInfo(t_idx))
  /\ IF ConvInfo(t_idx).unread_count > 0
     THEN /\ t_pc' = "msgs"
          /\ t_msg' = 1
          /\ contact_found' = FALSE
          /\ UNCHANGED t_part
     ELSE /\ t_pc' = "parts"
          /\ t_part' = 1
          /\ UNCHANGED << t_msg, contact_found >>
  /\ UNCHANGED << inbox, t_idx, contact_details_data, participant_data,
                  participant_files, t_send_log >>
  /\ TriageFrame

\* extract_message_data or extract_contact_details raises (lines 278-286).
TMessageRaises ==
  /\ t_pc = "msgs"
  /\ t_msg <= Len(inbox[t_idx].messages)
  /\ UNCHANGED participant_data
  /\ TAbort

\* What send_response_message makes of one api.send_message call.
Ack(response, classified) ==
  [conversation |-> t_idx, response |-> response, classified |-> classified]

\* Variant: the response is sent for every message with a contact detail.
TMessageAcksEach ==
  /\ t_pc = "msgs"
  /\ t_msg <= Len(inbox[t_idx].messages)
  /\ LET details == extract_contact_details(inbox[t_idx].messages[t_msg])
     IN  IF HasContact(details)
         THEN /\ contact_found' = TRUE
              /\ contact_details_data' =
                   Append(contact_details_data,
                          ContactFact(t_idx, t_msg, details))
              /\ t_send_log' = Append(t_send_log, Ack("falsy", "succeeded"))
         ELSE UNCHANGED << contact_found, contact_details_data, t_send_log >>
  /\ t_msg' = t_msg + 1
  /\ UNCHANGED << t_pc, inbox, t_idx, t_part, conversation_data,
                  participant_data, participant_files >>
  /\ TriageFrame

\* Variant: only the first message with a contact detail is recorded.
TMessageFirstOnly ==
  /\ t_pc = "msgs"
  /\ t_msg <= Len(inbox[t_idx].messages)
  /\ LET details == extract_contact_details(inbox[t_idx].messages[t_msg])
     IN  IF HasContact(details) /\ ~contact_found
         THEN /\ contact_found' = TRUE
              /\ contact_details_data' =
                   Append(contact_details_data,
                          ContactFact(t_idx, t_msg, details))
         ELSE UNCHANGED << contact_found, contact_details_data >>
  /\ t_msg' = t_msg + 1
  /\ UNCHANGED << t_pc, inbox, t_idx, t_part, conversation_data,
                  participant_data, participant_files, t_send_log >>
  /\ TriageFrame

\* One message of the loop of lines 283-296.
TMessage ==
  /\ t_pc = "msgs"
  /\ t_msg <= Len(inbox[t_idx].messages)
  /\ LET details == extract_contact_details(inbox[t_idx].messages[t_msg])
     IN  IF HasContact(details)
         THEN /\ contact_found' = TRUE
              /\ contact_details_data' =
                   Append(contact_details_data,
                          ContactFact(t_idx, t_msg, details))
         ELSE UNCHANGED << contact_found, contact_details_data >>
  /\ t_msg' = t_msg + 1
  /\ UNCHANGED << t_pc, inbox, t_idx, t_part, conversation_data,
                  participant_data, participant_files, t_send_log >>
  /\ TriageFrame

\* if contact_found: false
TNoAck ==
  /\ t_pc = "msgs"
  /\ t_msg > Len(inbox[t_idx].messages)
  /\ ~contact_found
  /\ t_pc' = "parts"
  /\ t_part' = 1
  /\ UNCHANGED << inbox, t_idx, t_msg, contact_found, conversation_data,
                  contact_details_data, participant_data, participant_files,
                  t_send_log >>
  /\ TriageFrame

\* if contact_found: send_response_message(api, conversation_urn); its
\* return value is not looked at.
TAck(response, classified) ==
  /\ t_pc = "msgs"
  /\ t_msg > Len(inbox[t_idx].messages)
  /\ contact_found
  /\ t_send_log' = Append(t_send_log, Ack(response, classified))
  /\ t_pc' = "parts"
  /\ t_part' = 1
  /\ UNCHANGED << inbox, t_idx, t_msg, contact_found, conversation_data,
                  contact_details_data, participant_data, participant_files >>
  /\ TriageFrame

\* api.send_message returns False (sent): "Successfully sent", return True
TAckSent == TAck("falsy", "succeeded")

\* api.send_message returns True (an error): its value is dropped,
\* "Successfully sent", return True
TAckError == TAck("truthy", "succeeded")

\* api.send_message raises: "Error sending response message", return False
TAckRaises == TAck("raised", "failed")

\* extract_participant_data raises (line 310).
TParticipantExtractRaises ==
  /\ t_pc = "parts"
  /\ t_part <= Len(inbox[t_idx].participants)
  /\ UNCHANGED participant_data
  /\ TAbort

\* save_raw_json of the participant raises again what it caught (lines 73-75)
\* after participant_info was appended.
TParticipantSaveRaises ==
  /\ t_pc = "parts"
  /\ t_part <= Len(inbox[t_idx].participants)
  /\ extract_urn_id(inbox[t_idx].participants[t_part]) # ""
  /\ participant_data' =
       Append(participant_data, ParticipantInfo(t_idx, t_part))
  /\ TAbort

\* One participant of the loop of lines 308-316.
TParticipant ==
  /\ t_pc = "parts"
  /\ t_part <= Len(inbox[t_idx].participants)
  /\ participant_data' =
       Append(participant_data, ParticipantInfo(t_idx, t_part))
  /\ LET urn_id == extract_urn_id(inbox[t_idx].participants[t_part])
     IN  participant_files' =
           IF urn_id # "" THEN participant_files \cup {urn_id}
           ELSE participant_files
  /\ t_part' = t_part + 1
  /\ UNCHANGED << t_pc, inbox, t_idx, t_msg, contact_found, conversation_data,
                  contact_details_data, t_send_log >>
  /\ TriageFrame

\* The body of the loop over elements is done: the next conversation.
TNextConversation ==
  /\ t_pc = "parts"
  /\ t_part > Len(inbox[t_idx].participants)
  /\ t_idx' = t_idx + 1
  /\ t_pc' = "conv"
  /\ UNCHANGED << inbox, t_msg, t_part, contact_found, conversation_data,
                  contact_details_data, participant_data, participant_files,
                  t_send_log >>
  /\ TriageFrame

NextTriage ==
  \/ TFetchRaises
  \/ TFetch
  \/ TPersist
  \/ TMetadataRaises
  \/ TConversation
  \/ TMessageRaises
  \/ TMessage
  \/ TNoAck
  \/ TAckSent
  \/ TAckError
  \/ TAckRaises
  \/ TParticipantExtractRaises
  \/ TParticipantSaveRaises
  \/ TParticipant
  \/ TNextConversation

SpecTriage == InitTriage /\ [][NextTriage]_vars

\* ------------------------------------------------------------------------
\* Pipeline 3 executed again: main keeps nothing from one execution to the
\* next but the files of the output directory
\* ------------------------------------------------------------------------
\* Executions of the program in a row.
MaxPasses == 2

\* What api.get_conversations() gives the next execution when no message has
\* come in: the same conversations, with the unread counts as they were or
\* all back at 0.
Refetched(list) ==
  { list, [i \in DOMAIN list |-> [list[i] EXCEPT !.unread_count = 0]] }

\* The program has ended and is started again: the locals of main are new
\* (lines 256-258), the files of the output directory stay.
TStartAgain ==
  /\ t_pc \in {"done", "aborted"}
  /\ t_pass < MaxPasses
  /\ t_pass' = t_pass + 1
  /\ t_prev_inbox' = inbox
  /\ t_prev_send_log' = t_send_log
  /\ t_pc' = "again"
  /\ inbox' = <<>>
  /\ t_idx' = 1
  /\ t_msg' = 1
  /\ t_part' = 1
  /\ contact_found' = FALSE
  /\ conversation_data' = <<>>
  /\ contact_details_data' = <<>>
  /\ participant_data' = <<>>
  /\ t_send_log' = <<>>
  /\ UNCHANGED participant_files
  /\ UNCHANGED << P1Vars, MsgVars, FnVars >>

\* conversations = api.get_conversations() of the next execution (line 248)
TFetchAgain ==
  /\ t_pc = "again"
  /\ \E list \in Refetched(t_prev_inbox) : inbox' = list
  /\ t_pc' = "conv"
  /\ UNCHANGED << t_idx, t_msg, t_part, contact_found, conversation_data,
                  contact_details_data, participant_data, participant_files,
                  t_send_log >>
  /\ TriageFrame

NextRepeat ==
  \/ NextTriage
  \/ TStartAgain
  \/ TFetchAgain

SpecRepeat == InitTriage /\ [][NextRepeat]_vars

\* ------------------------------------------------------------------------
\* Vocabulary of the properties
\* ------------------------------------------------------------------------
\* Identifiers present, as text, in the persisted ledger.
LedgerIds == { ledger_file[i] : i \in 1..Len(ledger_file) } \cap Ids

LastRecord == connection_attempts[Len(connection_attempts)]

LastEvent == exec_log[Len(exec_log)]

\* The executor call whose events are in exec_log has returned.
Returned == pc # "exec" /\ exec_log # <<>> /\ connection_attempts # <<>>

RaiseEvents == {"lookup_raise", "add_raise"}
ResponseFailures == {"lookup_none", "add_fail"}
FailureEvents == RaiseEvents \cup ResponseFailures
LookupEvents == {"lookup_ok", "lookup_none", "lookup_raise"}

EventsAt(log, a) == { log[i].ev : i \in { j \in DOMAIN log : log[j].attempt = a } }

\* The reason a failure carries: the text of the response, or the message of
\* the exception (prefixed when the lookup raised it).
ReasonOf(event) ==
  CASE event.ev = "lookup_none"  -> MsgNotFound
    [] event.ev = "lookup_raise" -> CouldNotFetch(event.err)
    [] event.ev = "add_fail"     -> MsgFailed
    [] event.ev = "add_raise"    -> event.err
    [] OTHER                     -> MsgSent

\* The failure at position i of the log is followed by the retry delay and
\* by the lookup of the next attempt (as far as the call has got).
FollowedByRetry(log, i) ==
  IF i = Len(log)
  THEN pc = "exec" /\ exec_pc = "sleep" /\ attempt = log[i].attempt + 1
  ELSE /\ log[i + 1] = Event(log[i].attempt + 1, "sleep", "")
       /\ IF i + 1 = Len(log)
          THEN pc = "exec" /\ exec_pc = "lookup"
          ELSE /\ log[i + 2].ev \in LookupEvents
               /\ log[i + 2].attempt = log[i].attempt + 1

\* ------------------------------------------------------------------------
\* Properties
\* ------------------------------------------------------------------------

\* C1: while a run is under way, no identifier that was in the persisted
\* ledger when the run started has been given to get_profile or
\* add_connection by that run.  (The file is not written before the run ends.)
C1_NoConnectForLedgerIds ==
  pc \in InRun => api_calls \cap LedgerIds = {}

\* C2: successful_connections never exceeds target_connections; with the
\* target reached no executor call is under way and no scrape_staff call was
\* issued.
C2_TargetBound ==
  /\ successful_connections <= target_connections
  /\ scrapes_after_target = 0
  /\ pc = "exec" => successful_connections < target_connections

\* C2 case: the run stopped on the target with a company still to go.
C2_Witness ==
  /\ pc = "save"
  /\ successful_connections = target_connections
  /\ company_idx <= num_companies

\* C3: the executor calls made in one company's sub-loop never exceed
\* max_attempts_per_company.
C3_CapBound == submitted_for_company <= max_attempts_per_company

\* C3 case: the cap is reached with a connectable target still in the batch.
C3_Witness ==
  /\ pc = "profile"
  /\ profiles_to_try # <<>>
  /\ submitted_for_company = max_attempts_per_company
  /\ ~HasNoId(ResolveProfileId(Head(profiles_to_try)))
  /\ ~AlreadyAttempted(ResolveProfileId(Head(profiles_to_try)),
                       previous_profile_ids)

\* C4: the run holds one AttemptRecord per executor call that has returned,
\* none for the call under way, whatever the number of its attempts; the
\* last record is that of the target of the call that returned last.
C4_OneRecordPerTarget ==
  /\ Len(connection_attempts) =
       IF pc = "exec" THEN calls_started - 1 ELSE calls_started
  /\ Returned => LastRecord.profile_id \in api_calls

\* C4 case: a call that took three attempts has returned and left one record.
C4_Witness ==
  /\ Returned
  /\ LastEvent.attempt = max_retries - 1
  /\ Len(connection_attempts) = 1
  /\ calls_started = 1

\* add_connection was called in each of the three attempts: it raised in the
\* first two and was accepted in the third.
AddFailedTwiceThenAccepted(log) ==
  /\ "add_raise" \in EventsAt(log, 0)
  /\ "add_raise" \in EventsAt(log, 1)
  /\ "add_ok" \in EventsAt(log, 2)

\* C5: add_connection failed on the first and on the second attempt and was
\* accepted on the third: the call returned success and the target has one
\* record, with success = TRUE.
C5_ThirdAttemptSucceeds ==
  AddFailedTwiceThenAccepted(exec_log) =>
    /\ pc # "exec"
    /\ Len(connection_attempts) = calls_started
    /\ LastRecord.success = TRUE
    /\ LastRecord.message = MsgSent
    /\ successful_connections = 1

\* C5 case: two raising calls of add_connection, the third accepted, the
\* call returned.
C5_Witness ==
  /\ AddFailedTwiceThenAccepted(exec_log)
  /\ Returned
  /\ LastRecord.success = TRUE

\* Each of the max_retries attempts ended in a failure.
AllAttemptsFailed(log) ==
  \A a \in 0..(max_retries - 1) : EventsAt(log, a) \cap FailureEvents # {}

\* C6: the action failed on each of the three attempts: the call returned
\* failure and the target has one record, with success = FALSE and the reason
\* of the failure of the third attempt.
C6_LastReasonReported ==
  AllAttemptsFailed(exec_log) =>
    /\ pc # "exec"
    /\ Len(connection_attempts) = calls_started
    /\ LastRecord.success = FALSE
    /\ LastEvent.attempt = max_retries - 1
    /\ LastRecord.message = ReasonOf(LastEvent)
    /\ successful_connections = 0

\* C6 case: three failures, the first with another reason than the last.
C6_Witness ==
  /\ AllAttemptsFailed(exec_log)
  /\ Returned
  /\ \E i \in DOMAIN exec_log :
       /\ exec_log[i].attempt = 0
       /\ exec_log[i].ev \in FailureEvents
       /\ ReasonOf(exec_log[i]) # ReasonOf(LastEvent)
       /\ exec_log[i].ev = LastEvent.ev

\* C7: for each kind of outbound action the attempts made for one target are
\* bounded and the executor ends, so that the loop goes on to the next
\* target.  For the message send of pipeline 2: once in the send loop, main
\* leaves it.
C7_SendLoopEnds == (m_pc = "send") ~> (m_pc \in {"pause", "next", "done"})

C10_NoConnectAfterKill ==
  pc \in InRun => api_calls \cap killed_ids = {}

\* The save step of a run that holds at least one AttemptRecord, whichever
\* way the merge with the existing file ends.
RunCompletesWithRecords == SaveLedger \/ SaveLedgerFails

\* C11: when a run that produced at least one AttemptRecord completes, the
\* persisted ledger afterwards is the ledger as it was before the run,
\* cell for cell, followed by one row per AttemptRecord of the run.
C11_LedgerAppendOnly ==
  [][RunCompletesWithRecords =>
       ledger_file' = ledger_file \o ProfileIdColumn(connection_attempts)]_vars

\* C12: in a run the inter-target delay has been slept once per successful
\* connect and not once more: never for a skipped target, never for a connect
\* that returned failure.
C12_DelayIffSuccess == target_delays = successful_connections

\* C12 case: one connect succeeded earlier in the run and the last one
\* returned failure with its three attempts used up; one delay was slept.
C12_Witness ==
  /\ Returned
  /\ Len(connection_attempts) = 2
  /\ connection_attempts[1].success = TRUE
  /\ LastRecord.success = FALSE
  /\ LastEvent.attempt = max_retries - 1
  /\ target_delays = 1

\* C13: a scrape_staff call for a company other than the first is issued
\* only after the inter-batch delay was slept since the previous call.
C13_DelayBeforeEveryScrape ==
  (CanScrape /\ company_idx > 1) => batch_delayed

\* C14: a run leaves the loop over selected_companies only for the save
\* step, with every selected company processed or the success target met;
\* this holds in particular after a scrape_staff call that raised.
C14_ScrapeFailureNotFatal ==
  /\ pc = "save" =>
       \/ company_idx > num_companies
       \/ TargetMet(successful_connections, target_connections)
  /\ scrape_raised_at > 0 => pc \in InRun /\ company_idx > scrape_raised_at

\* C14 case: scrape_staff raised for the first company, the second company
\* was processed and gave an AttemptRecord, the run is at its save step.
C14_Witness ==
  /\ pc = "save"
  /\ scrape_raised_at = 1
  /\ num_companies = 2
  /\ company_idx > num_companies
  /\ connection_attempts # <<>>

C20_NoSendWithoutMessage ==
  /\ m_llm_failed \cap m_sends = {}
  /\ \A i \in m_llm_failed : m_idx > i /\ m_pc # "start"

\* C20 case: no message for the first connection, a message sent to the
\* second.
C20_Witness ==
  /\ 1 \in m_llm_failed
  /\ 2 \in m_sends
  /\ m_sends = {2}

\* The body of the loop over elements has run to its end for conversation i.
Processed(i) == i < t_idx

FactsOf(i) ==
  { k \in DOMAIN contact_details_data :
      contact_details_data[k].conversation_id = i }

AcksOf(i) == { k \in DOMAIN t_send_log : t_send_log[k].conversation = i }

ParticipantRecords(i, p) ==
  { k \in DOMAIN participant_data :
      /\ participant_data[k].conversation = i
      /\ participant_data[k].position = p }

\* Some message of conversation i holds a phone number or an email address.
HasContactMessage(i) ==
  \E m \in DOMAIN inbox[i].messages :
    HasContact(extract_contact_details(inbox[i].messages[m]))

\* C15: a conversation with unread_count = 0 never has a ContactFact nor a
\* response sent, whatever its messages hold; once the pass has gone through
\* it, it has exactly one participant record per participant.
C15_ReadConversation ==
  \A i \in DOMAIN inbox :
    inbox[i].unread_count = 0 =>
      /\ FactsOf(i) = {}
      /\ AcksOf(i) = {}
      /\ \A p \in DOMAIN inbox[i].participants :
           /\ Cardinality(ParticipantRecords(i, p)) <= 1
           /\ Processed(i) => Cardinality(ParticipantRecords(i, p)) = 1

\* C15 case: the pass is over; a read conversation whose message holds a
\* contact detail left no fact and no response, and its participant record.
C15_Witness ==
  /\ t_pc = "done"
  /\ \E i \in DOMAIN inbox :
       /\ inbox[i].unread_count = 0
       /\ HasContactMessage(i)
       /\ ParticipantRecords(i, 1) # {}

\* C16: an unread conversation never has more than one response sent, and
\* none unless one of its messages holds a contact detail; once the pass has
\* gone through it, it has exactly one if some message holds a phone number
\* or an email address, and none otherwise.
C16_OneAckPerConversation ==
  \A i \in DOMAIN inbox :
    inbox[i].unread_count > 0 =>
      /\ Cardinality(AcksOf(i)) <= 1
      /\ AcksOf(i) # {} => HasContactMessage(i)
      /\ Processed(i) =>
           Cardinality(AcksOf(i)) = IF HasContactMessage(i) THEN 1 ELSE 0

\* C16 case: the pass is over; an unread conversation with two messages that
\* both hold a contact detail got one response, another one without any got
\* none.
C16_Witness ==
  /\ t_pc = "done"
  /\ \E i, j \in DOMAIN inbox :
       /\ inbox[i].unread_count > 0
       /\ Cardinality(FactsOf(i)) = 2
       /\ Cardinality(AcksOf(i)) = 1
       /\ inbox[j].unread_count > 0
       /\ ~HasContactMessage(j)
       /\ inbox[j].messages # <<>>
       /\ AcksOf(j) = {}

\* C17: no step taken inside the loop over the conversations (metadata,
\* messages, contact details, participants) ends the pass with an exception.
C17_ItemFailureContained ==
  [][(t_pc \in {"conv", "msgs", "parts"}) => (t_pc' # "aborted")]_vars

\* Results of the send_message calls of pipelines 2 and 3.
AllSendResults ==
  m_send_log \cup
  { SendResult(t_send_log[k].response, t_send_log[k].classified) :
      k \in DOMAIN t_send_log }

\* C18: a send_message call that returned a truthy error indicator is taken
\* as failed; one taken as succeeded returned a falsy indicator and did not
\* raise.
C18_SendClassified ==
  \A r \in AllSendResults :
    /\ r.response = "truthy" => r.classified = "failed"
    /\ r.classified = "succeeded" => r.response = "falsy"

\* ---------------------------------------------------------------------
\* Functions looked at on their own: no pipeline is running.
\* ---------------------------------------------------------------------

PipelinesIdle ==
  /\ MsgIdle
  /\ TriageIdle
  /\ ledger_file = <<>>
  /\ errs = {"timeout"}
  /\ runs = 0
  /\ pc = "idle"
  /\ num_companies = 1
  /\ max_attempts_per_company = 1
  /\ target_connections = CodeTarget
  /\ killed_ids = {}
  /\ boot_failed = FALSE
  /\ FreshLocals

PipelinesFrame == UNCHANGED << P1Vars, MsgVars, TriageVars >>

\* Largest attempt number the backoff is computed for.
MaxAttempt == 5

\* random.uniform(0, base_delay), in whole seconds below base_delay
JitterValues == 0 .. (base_delay - 1)

\* The attempt number the delay is computed for.
InitBackoff ==
  /\ PipelinesIdle
  /\ fn_pc = "in"
  /\ fn_input \in [attempt : 1 .. MaxAttempt]
  /\ fn_result = <<>>

\* The delay for that attempt and, with a jitter of its own, the delay for the
\* attempt after it.
ComputeDelay ==
  /\ fn_pc = "in"
  /\ \E jitter \in JitterValues, later \in JitterValues :
       fn_result' = [delay |-> DelayForAttempt(fn_input.attempt, jitter),
                     next |-> DelayForAttempt(fn_input.attempt + 1, later)]
  /\ fn_pc' = "out"
  /\ UNCHANGED fn_input
  /\ PipelinesFrame

NextBackoff == ComputeDelay

SpecBackoff == InitBackoff /\ [][NextBackoff]_vars

\* C21 as stated: for attempt n in 1..5 the delay is at least 30 * 2^n and at
\* most 150, and does not decrease from one attempt to the next.
C21_DelayAtLeastDoubling ==
  fn_pc = "out" =>
    /\ fn_result.delay >= base_delay * Pow2(fn_input.attempt)
    /\ fn_result.delay <= max_delay
    /\ fn_result.delay <= fn_result.next

\* C21 amended: for attempt n in 1..5 the delay is at least
\* min(150, 30 * 2^n) and at most 150 (so it is exactly 150 from attempt 3
\* on), and does not decrease from one attempt to the next.
C21_DelayCapped ==
  fn_pc = "out" =>
    /\ fn_result.delay >= Min(max_delay, base_delay * Pow2(fn_input.attempt))
    /\ fn_result.delay <= max_delay
    /\ fn_result.delay <= fn_result.next

\* An attempt whose doubling is beyond the cap: the delay is the cap.
C21_Witness ==
  /\ fn_pc = "out"
  /\ fn_input.attempt = 3
  /\ fn_result.delay = max_delay
  /\ fn_result.next = max_delay

\* ---------------------------------------------------------------------
\* extract_contact_details on its own (pipe_3_final_jan20.py, lines 33-64)
\* ---------------------------------------------------------------------

\* What stands before the number in a sample text.
SamplePrefixes ==
  { << >>, << "+", "9", "1" >>, << "0" >>, << "+", "9", "1", " " >> }

\* The number of a sample text, or a word in its place.
SampleNumbers ==
  { << "9", "8", "7", "6", "5", "4", "3", "2", "1", "0" >>,
    << "6", "0", "0", "0", "0", "0", "0", "0", "0", "0" >>,
    << "1", "2", "3", "4", "5", "6", "7", "8", "9", "0" >>,
    << "0", "1", "2", "3", "4", "5", "6", "7", "8", "9" >>,
    << "h", "i" >> }

\* What stands behind the number in a sample text.
SampleSuffixes ==
  { << >>,
    << ",", " ", "r", "e", "a", "c", "h", " ", "m", "e", " ", "a", "t", " ",
       "a", "@", "b", ".", "c", "o", "m" >>,
    << " ", "a", "@", "b" >>,
    << " ", "x", ".", "y", "@", "c", "-", "d", ".", "e", ".", "o", "r", "g",
       "!" >> }

SampleTexts ==
  { p \o n \o s : p \in SamplePrefixes, n \in SampleNumbers,
                  s \in SampleSuffixes }

\* The message text handed to the extractor.
InitExtract ==
  /\ PipelinesIdle
  /\ fn_pc = "in"
  /\ fn_input \in SampleTexts
  /\ fn_result = << >>

\* contact_details = extract_contact_details(text)
ExtractCall ==
  /\ fn_pc = "in"
  /\ fn_result' = extract_contact_details(fn_input)
  /\ fn_pc' = "out"
  /\ UNCHANGED fn_input
  /\ PipelinesFrame

NextExtract == ExtractCall

SpecExtract == InitExtract /\ [][NextExtract]_vars

\* "+91 9876543210, reach me at a@b.com"
ExampleText ==
  << "+", "9", "1", " ", "9", "8", "7", "6", "5", "4", "3", "2", "1", "0",
     ",", " ", "r", "e", "a", "c", "h", " ", "m", "e", " ", "a", "t", " ",
     "a", "@", "b", ".", "c", "o", "m" >>

\* A returned phone number: ten digits, the first one of 6, 7, 8, 9.
TenDigitNumber(num) ==
  /\ Len(num) = 10
  /\ num[1] \in LeadDigits
  /\ \A k \in 1 .. 10 : num[k] \in Digits

\* num stands somewhere in text.
OccursIn(num, text) ==
  \E i \in 1 .. Len(text) : LiteralAt(text, i, num)

\* C22: every phone number the extractor returns is exactly ten digits with
\* the first digit in 6..9 (a prefix +91 or 0 is stripped) and stands in the
\* text; on "+91 9876543210, reach me at a@b.com" it returns the phone
\* numbers ["9876543210"] and the emails ["a@b.com"].
C22_PhonesNormalised ==
  fn_pc = "out" =>
    /\ \A k \in 1 .. Len(fn_result.phone_numbers) :
         /\ TenDigitNumber(fn_result.phone_numbers[k])
         /\ OccursIn(fn_result.phone_numbers[k], fn_input)
    /\ fn_input = ExampleText =>
         /\ fn_result.phone_numbers =
              << << "9", "8", "7", "6", "5", "4", "3", "2", "1", "0" >> >>
         /\ fn_result.emails = << << "a", "@", "b", ".", "c", "o", "m" >> >>

\* A number written with the prefix 0 directly before it comes back without
\* the prefix.
C22_Witness ==
  /\ fn_pc = "out"
  /\ LiteralAt(fn_input, 1, << "0", "9", "8", "7" >>)
  /\ fn_result.phone_numbers =
       << << "9", "8", "7", "6", "5", "4", "3", "2", "1", "0" >> >>

\* The maximal runs of digits of a text, each as << first, last >>.
DigitRuns(text) ==
  { r \in (1 .. Len(text)) \X (1 .. Len(text)) :
      /\ r[1] <= r[2]
      /\ \A k \in r[1] .. r[2] : text[k] \in Digits
      /\ (r[1] = 1 \/ text[r[1] - 1] \notin Digits)
      /\ (r[2] = Len(text) \/ text[r[2] + 1] \notin Digits) }

\* No run of ten digits and no @ anywhere.
NoContactShape(text) ==
  /\ \A r \in DigitRuns(text) : r[2] - r[1] + 1 < 10
  /\ \A k \in 1 .. Len(text) : text[k] # "@"

\* The only run of digits is ten digits long and starts outside 6..9.
OnlyRunIsTenDigitsOffLead(text) ==
  /\ DigitRuns(text) # {}
  /\ \A r \in DigitRuns(text) :
       r[2] - r[1] + 1 = 10 /\ text[r[1]] \notin LeadDigits
  /\ \A r, q \in DigitRuns(text) : r = q

\* C23: for a text with nothing in the shape of a phone number or an email
\* the extractor returns two empty sequences (both fields are always
\* sequences); a text whose only digit run is a ten-digit number starting
\* outside 6..9 yields no phone number.
C23_NothingFromNoShape ==
  fn_pc = "out" =>
    /\ DOMAIN fn_result = {"phone_numbers", "emails"}
    /\ DOMAIN fn_result.phone_numbers = 1 .. Len(fn_result.phone_numbers)
    /\ DOMAIN fn_result.emails = 1 .. Len(fn_result.emails)
    /\ NoContactShape(fn_input) =>
         fn_result.phone_numbers = << >> /\ fn_result.emails = << >>
    /\ OnlyRunIsTenDigitsOffLead(fn_input) =>
         fn_result.phone_numbers = << >>

\* A ten-digit number starting with 1 and nothing else: nothing is returned.
C23_Witness ==
  /\ fn_pc = "out"
  /\ fn_input = << "1", "2", "3", "4", "5", "6", "7", "8", "9", "0" >>
  /\ fn_result.phone_numbers = << >>
  /\ fn_result.emails = << >>

\* A text of letters only: nothing is returned.
C23_WitnessNoShape ==
  /\ fn_pc = "out"
  /\ NoContactShape(fn_input)
  /\ fn_result.phone_numbers = << >>
  /\ fn_result.emails = << >>

\* The head of the batch is a target the loop skips (lines 269-275).
SkippedTarget ==
  /\ pc = "profile"
  /\ profiles_to_try # << >>
  /\ ~TargetMet(successful_connections, target_connections)
  /\ ~CapReached(attempts_for_company, max_attempts_per_company)
  /\ \/ HasNoId(ResolveProfileId(Head(profiles_to_try)))
     \/ ResolveProfileId(Head(profiles_to_try)) \in previous_profile_ids

\* C24: the step of a run that goes on and takes a skipped target off the
\* batch issues no lookup and no connection request, appends no
\* AttemptRecord, sleeps no pacing delay and leaves the attempts counter and
\* the success counter unchanged.
C24_SkipHasNoEffect ==
  [][(/\ SkippedTarget
      /\ profiles_to_try' = Tail(profiles_to_try)
      /\ pc' \in InRun) =>
       /\ pc' = "profile"
       /\ exec_log' = << >>
       /\ UNCHANGED << api_calls, calls_started, connection_attempts,
                       target_delays, batch_delayed, attempts_for_company,
                       submitted_for_company, successful_connections >>]_vars

\* A whole batch taken off by skips in a run that knows ids from the ledger:
\* nothing was submitted and nothing recorded.
C24_Witness ==
  /\ pc = "profile"
  /\ profiles_to_try = << >>
  /\ previous_profile_ids # {}
  /\ attempts_for_company = 0
  /\ calls_started = 0
  /\ connection_attempts = << >>
  /\ target_delays = 0

AddEvents == {"add_ok", "add_fail", "add_raise"}

\* C25: within one executor call a connection request is issued only right
\* after the lookup of the same attempt succeeded; an attempt whose lookup
\* raised or found nothing issues no connection request; the call returns
\* success only if its last step was a connection request that returned the
\* success indicator.
C25_AddOnlyAfterLookup ==
  /\ \A i \in DOMAIN exec_log :
       exec_log[i].ev \in AddEvents =>
         /\ i > 1
         /\ exec_log[i - 1].ev = "lookup_ok"
         /\ exec_log[i - 1].attempt = exec_log[i].attempt
  /\ \A i \in DOMAIN exec_log :
       exec_log[i].ev \in {"lookup_none", "lookup_raise"} =>
         EventsAt(exec_log, exec_log[i].attempt) \cap AddEvents = {}
  /\ (Returned /\ LastRecord.success) => LastEvent.ev = "add_ok"

\* The lookup raised in the first attempt, so no request was issued there;
\* in the second attempt the lookup succeeded and the request was accepted.
C25_Witness ==
  /\ Returned
  /\ LastRecord.success
  /\ exec_log[1] = Event(0, "lookup_raise", "timeout")
  /\ EventsAt(exec_log, 1) = {"sleep", "lookup_ok", "add_ok"}

\* The message at position m of conversation i holds a contact detail.
Matches(i, m) == HasContact(extract_contact_details(inbox[i].messages[m]))

\* C26: for an unread conversation the extractor is run over the messages in
\* order: a message that holds a contact detail never has more than one
\* ContactFact, and its fact carries the identifier of the conversation and
\* of the message and what the extractor returned; a message that holds none
\* has no ContactFact; the facts of a conversation stand in the order of its
\* messages; once the pass has gone through the conversation every message
\* that holds a contact detail has exactly one ContactFact.
C26_OneFactPerMatch ==
  \A i \in DOMAIN inbox :
    inbox[i].unread_count > 0 =>
      /\ \A m \in DOMAIN inbox[i].messages :
           LET facts == { k \in FactsOf(i) :
                            contact_details_data[k].message_id = m }
           IN  /\ Cardinality(facts) <= 1
               /\ ~Matches(i, m) => facts = {}
               /\ (Processed(i) /\ Matches(i, m)) => facts # {}
               /\ \A k \in facts :
                    contact_details_data[k] =
                      ContactFact(i, m,
                        extract_contact_details(inbox[i].messages[m]))
      /\ \A k \in FactsOf(i) :
           contact_details_data[k].message_id \in DOMAIN inbox[i].messages
      /\ \A k, l \in FactsOf(i) :
           k < l => contact_details_data[k].message_id
                      < contact_details_data[l].message_id

\* The pass is over; an unread conversation whose first message holds no
\* contact detail and whose second holds one has the one fact of the second.
C26_Witness ==
  /\ t_pc = "done"
  /\ \E i \in DOMAIN inbox :
       /\ inbox[i].unread_count > 0
       /\ Len(inbox[i].messages) = 2
       /\ ~Matches(i, 1)
       /\ Matches(i, 2)
       /\ \E k \in FactsOf(i) : contact_details_data[k].message_id = 2
       /\ Cardinality(FactsOf(i)) = 1

\* C27: the backoff slept after the k-th consecutive failed send of a message
\* (k = retry_count >= 1) is min(150, 30 * 2^k + jitter) with the jitter in
\* [0, 30): after the first failure it lies in [60, 90).
C27_BackoffExponentIsFailureCount ==
  (m_pc = "send" /\ retry_count >= 1) =>
    /\ \E jitter \in JitterValues :
         m_delay = Min(max_delay, base_delay * Pow2(retry_count) + jitter)
    /\ retry_count = 1 => (m_delay >= 60 /\ m_delay < 90)

\* C28: within one run no identifier is submitted to the connect executor more
\* than once: no two AttemptRecords of the run carry the same identifier, and
\* the identifier being submitted has no AttemptRecord yet.
C28_NoIdSubmittedTwice ==
  /\ \A k, l \in DOMAIN connection_attempts :
       connection_attempts[k].profile_id = connection_attempts[l].profile_id
         => k = l
  /\ pc = "exec" => profile_id \notin AttemptedIds(connection_attempts)

\* The ledger file was there when the run started and reading it raised: the
\* run goes with an empty set (a file that loads gives at least one value).
LoadFailed == pc \in InRun /\ FileExists /\ previous_profile_ids = {}

\* C29: a run whose ledger file exists but could not be loaded gives no
\* identifier recorded in that file to get_profile or add_connection.
C29_NoConnectAfterLoadFailure ==
  LoadFailed => api_calls \cap LedgerIds = {}

\* ---------------------------------------------------------------------
\* One run of the campaign with the numbers written in the code
\* ---------------------------------------------------------------------

\* num_companies = min(3, len(companies))   (line 194)
CodeCompanies == 3

\* max_attempts_per_company = 2   (line 205)
CodeCap == 2

\* The last run of the process is about to start, with or without a ledger
\* file; the target is the one of line 204 or, for comparison, 1.
InitCode ==
  /\ MsgIdle
  /\ TriageIdle
  /\ FnIdle
  /\ ledger_file \in {<< >>, << "alice" >>}
  /\ errs = {"timeout"}
  /\ runs = MaxRuns - 1
  /\ pc = "idle"
  /\ num_companies \in 1 .. CodeCompanies
  /\ max_attempts_per_company = CodeCap
  /\ target_connections \in {1, CodeTarget}
  /\ killed_ids = {}
  /\ boot_failed = FALSE
  /\ FreshLocals

\* The steps of a run in which no call raises and the process is not killed.
NextCode ==
  \/ StartRun
  \/ CompaniesExhausted
  \/ TargetReached
  \/ ScrapeEmpty
  \/ ScrapeBatch
  \/ ProfilesExhausted
  \/ BreakTarget
  \/ BreakCap
  \/ SkipNoId
  \/ SkipAlreadyAttempted
  \/ BeginConnect
  \/ LookupFound
  \/ LookupNotFound
  \/ AddAccepted
  \/ AddRejected
  \/ SaveNothing
  \/ SaveLedger

SpecCode == InitCode /\ [][NextCode]_vars

DeliveredTo(log, i) ==
  { k \in DOMAIN log : log[k].conversation = i /\ log[k].response = "falsy" }

\* Conversation i is in both fetches with the same unread count above 0 and
\* the same messages, one of them holding a contact detail.
SeenUnchanged(i) ==
  /\ i \in DOMAIN inbox
  /\ i \in DOMAIN t_prev_inbox
  /\ inbox[i].unread_count > 0
  /\ inbox[i].unread_count = t_prev_inbox[i].unread_count
  /\ inbox[i].messages = t_prev_inbox[i].messages
  /\ HasContactMessage(i)

\* C31: when two executions in a row see the same conversation with the same
\* unread count above 0 and the same messages holding a contact detail, the
\* response is delivered to it by at most one of the two.
C31_AckInOnePassOnly ==
  t_pass > 1 =>
    \A i \in DOMAIN inbox :
      SeenUnchanged(i) =>
        ~(DeliveredTo(t_prev_send_log, i) # {} /\ DeliveredTo(t_send_log, i) # {})

====
